---- MODULE Spec2Model ----
(***************************************************************************)
(* Recording lifecycle of foot_pedal_record_transcribe.py: the module      *)
(* globals, the keyboard listener thread (on_hotkey_press /                *)
(* on_hotkey_release / start_recording), one PortAudio callback thread per *)
(* InputStream (audio_callback) and the daemon threads that run            *)
(* stop_recording / process_recording.  No lock is taken anywhere in the   *)
(* source, so the handlers are cut into steps at their accesses to the     *)
(* globals and the threads interleave between any two steps.  The silence  *)
(* branch of audio_callback (lines 60-67) is one step.                     *)
(*                                                                         *)
(* Time is counted in units of half a second: MIN_SILENCE_DURATION (0.5 s) *)
(* is 1 unit and MAX_WAIT_AFTER_STOP_REQUEST (2.0 s) is 4 units.           *)
(*                                                                         *)
(* Library behaviour the model relies on: the keyboard listener runs the   *)
(* handlers one after the other on one thread and survives a handler that  *)
(* raises; an InputStream runs its callback on a thread of its own, one    *)
(* buffer at a time; InputStream.stop() and .close() wait for a running    *)
(* callback and ignore the error of a stream already stopped or closed     *)
(* (ignore_errors=True); InputStream.start() raises on a closed stream.    *)
(***************************************************************************)
EXTENDS Integers, Sequences, FiniteSets, Bags, TLC

\* ---- bounds of the model ------------------------------------------------
MaxSessions == 2   \* start_recording passes its guard at most this often
MaxWorkers  == 2   \* stop_recording threads alive at the same time
MaxFrames   == 3   \* buffers held by one recorded_frames list
MaxTime     == 4   \* the clock stops advancing here

\* ---- program constants ---------------------------------------------------
None == -1                          \* Python's None for the two timestamps
MIN_SILENCE_DURATION == 1           \* 0.5 s
MAX_WAIT_AFTER_STOP_REQUEST == 4    \* 2.0 s

Sessions == 1..MaxSessions
Rms == {"silent", "loud"}           \* rms < SILENCE_THRESHOLD, or not

VARIABLES
    recording,          \* global recording
    recorded_frames,    \* global recorded_frames: the stream each buffer came from
    stream,             \* global stream: 0 is None, else the id of an InputStream
    stop_requested,     \* global stop_requested
    stop_request_time,  \* global stop_request_time
    silence_start,      \* global silence_start
    silence_by,         \* stream whose buffer set silence_start (0 while None)
    now,                \* time.time()
    streams,            \* state of every InputStream object ever constructed
    cur,                \* number of start_recording calls that passed the guard
    framesOwner,        \* session whose start_recording bound the current list
    kpc,                \* keyboard listener thread: line it is at
    krel,               \* state the session was in when the last Release arrived
    cb,                 \* per stream: its callback thread (line, rms, current_time)
    workers,            \* bag of stop_recording threads (line, session they end)
    finalized,          \* per session: times process_recording was entered
    ended               \* sessions for which stop_recording ran recording = False

vars == <<recording, recorded_frames, stream, stop_requested, stop_request_time,
          silence_start, silence_by, now, streams, cur, framesOwner, kpc, krel,
          cb, workers, finalized, ended>>

globals == <<recording, recorded_frames, stream, stop_requested,
             stop_request_time, silence_start>>

CbIdle == [pc |-> "idle", rms |-> "loud", t |-> 0, spawned |-> 0]

Init ==
    /\ recording = FALSE
    /\ recorded_frames = <<>>
    /\ stream = 0
    /\ stop_requested = FALSE
    /\ stop_request_time = None
    /\ silence_start = None
    /\ silence_by = 0
    /\ now = 0
    /\ streams = [s \in Sessions |-> "none"]
    /\ cur = 0
    /\ framesOwner = 0
    /\ kpc = "idle"
    /\ krel = "none"
    /\ cb = [s \in Sessions |-> CbIdle]
    /\ workers = EmptyBag
    /\ finalized = [s \in Sessions |-> 0]
    /\ ended = {}

\* ---- the clock -----------------------------------------------------------
\* time.time() is read at lines 57 and 155 only; a read returns a value that
\* is not before the one returned last (now), and the clock has advanced to it.
Clock == now..MaxTime

\* the same clock when two consecutive reads are less than
\* MIN_SILENCE_DURATION apart (buffers arrive at such a period)
PacedClock == {t \in Clock : t - now <= 1}

\* ---- threads spawned by audio_callback -----------------------------------
\* a thread that has not run yet: by is the line that started it (65 or 71),
\* text will be what transcribe_audio returned to it ("none" for None)
NewWorker(by) == [pc |-> "w90", sess |-> 0, by |-> by, text |-> "-"]

\* threading.Thread(target=stop_recording, daemon=True).start()
Spawn(by) == workers (+) SetToBag({NewWorker(by)})

CanSpawn == BagCardinality(workers) < MaxWorkers

\* a stop_recording thread is past recording = False and has not returned
InFinalize ==
    \E w \in BagToSet(workers) : w.pc \in {"w94", "w95", "w96", "w103", "w110"}

\* ---- audio_callback, on the callback thread of stream s ------------------
\* lines 49-54: PortAudio delivers a buffer of an active stream; the callback
\* appends its copy to whatever list the global recorded_frames names now.
CbAppend(s, r) ==
    /\ streams[s] = "active"
    /\ cb[s].pc = "idle"
    /\ Len(recorded_frames) < MaxFrames
    /\ recorded_frames' = Append(recorded_frames, s)
    /\ cb' = [cb EXCEPT ![s] = [CbIdle EXCEPT !.pc = "c56", !.rms = r]]
    /\ UNCHANGED <<recording, stream, stop_requested, stop_request_time,
                   silence_start, now, streams, cur, framesOwner, kpc, krel,
                   silence_by, workers, finalized, ended>>

\* lines 56-57: if stop_requested: current_time = time.time(), which returns
\* a value of T
CbCheckIn(s, T) ==
    /\ cb[s].pc = "c56"
    /\ IF stop_requested
       THEN \E t \in T :
                /\ now' = t
                /\ cb' = [cb EXCEPT ![s].pc = "c60", ![s].t = t]
       ELSE /\ cb' = [cb EXCEPT ![s] = CbIdle]
            /\ now' = now
    /\ UNCHANGED <<globals, streams, cur, framesOwner, kpc, krel, silence_by,
                   workers, finalized, ended>>

CbCheck(s) == CbCheckIn(s, Clock)

\* the decision of lines 60-67 on the values it reads
SilenceStops(r, ss, t) ==
    r = "silent" /\ ss # None /\ t - ss >= MIN_SILENCE_DURATION

SilenceNext(r, ss, t) ==
    IF r = "silent" THEN (IF ss = None THEN t ELSE ss) ELSE None

\* lines 60-67
CbSilence(s) ==
    /\ cb[s].pc = "c60"
    /\ silence_start' = SilenceNext(cb[s].rms, silence_start, cb[s].t)
    /\ silence_by' = IF cb[s].rms = "loud" THEN 0
                     ELSE IF silence_start = None THEN s ELSE silence_by
    /\ IF SilenceStops(cb[s].rms, silence_start, cb[s].t)
       THEN /\ CanSpawn
            /\ workers' = Spawn("silence")
            /\ cb' = [cb EXCEPT ![s] = [CbIdle EXCEPT !.pc = "c69", !.t = cb[s].t,
                                                      !.spawned = 1]]
       ELSE /\ workers' = workers
            /\ cb' = [cb EXCEPT ![s] = [CbIdle EXCEPT !.pc = "c69", !.t = cb[s].t]]
    /\ UNCHANGED <<recording, recorded_frames, stream, stop_requested,
                   stop_request_time, now, streams, cur, framesOwner, kpc,
                   krel, finalized, ended>>

\* line 69 with > in place of >=
TimeoutDueStrict(srt, t) ==
    srt # None /\ t - srt > MAX_WAIT_AFTER_STOP_REQUEST

\* the condition of line 69
TimeoutDue(srt, t) ==
    srt # None /\ t - srt >= MAX_WAIT_AFTER_STOP_REQUEST

\* lines 69-71
CbTimeout(s) ==
    /\ cb[s].pc = "c69"
    /\ IF TimeoutDue(stop_request_time, cb[s].t)
       THEN /\ CanSpawn
            /\ workers' = Spawn("timeout")
            /\ cb' = [cb EXCEPT ![s] = CbIdle]
       ELSE /\ workers' = workers
            /\ cb' = [cb EXCEPT ![s] = CbIdle]
    /\ UNCHANGED <<globals, now, streams, cur, framesOwner, kpc, krel,
                   silence_by, finalized, ended>>

audio_callback ==
    \E s \in Sessions :
        \/ \E r \in Rms : CbAppend(s, r)
        \/ CbCheck(s)
        \/ CbSilence(s)
        \/ CbTimeout(s)

\* the same callback when every buffer is silent and the clock is paced
audio_callback_silent ==
    \E s \in Sessions :
        \/ CbAppend(s, "silent")
        \/ CbCheckIn(s, PacedClock)
        \/ CbSilence(s)
        \/ CbTimeout(s)

\* the same callback when no buffer is delivered before a Release has set
\* stop_requested
audio_callback_late ==
    \E s \in Sessions :
        \/ stop_requested /\ \E r \in Rms : CbAppend(s, r)
        \/ CbCheck(s)
        \/ CbSilence(s)
        \/ CbTimeout(s)

\* the same callback when the microphone never delivers a silent buffer
audio_callback_loud ==
    \E s \in Sessions :
        \/ CbAppend(s, "loud")
        \/ CbCheck(s)
        \/ CbSilence(s)
        \/ CbTimeout(s)

\* ---- the keyboard listener thread ----------------------------------------
\* The state of the spec's machine that the globals encode.
SessionState ==
    IF recording THEN (IF stop_requested THEN "StopPending" ELSE "Recording")
    ELSE (IF InFinalize THEN "Finalizing" ELSE "Idle")

\* on_hotkey_press without the checks of recording at lines 146 and 76
on_hotkey_press_unguarded ==
    /\ kpc = "idle"
    /\ cur < MaxSessions
    /\ recording' = TRUE
    /\ cur' = cur + 1
    /\ kpc' = "s80"
    /\ UNCHANGED <<recorded_frames, stream, stop_requested, stop_request_time,
                   silence_start, now, streams, framesOwner, krel, silence_by,
                   cb, workers, finalized, ended>>

\* lines 144-147 and 73-79: on_hotkey_press, the guard of start_recording and
\* recording = True.  Only this thread ever sets recording, so the two reads
\* and the write see the same value as one step does.
on_hotkey_press ==
    /\ kpc = "idle"
    /\ IF recording
       THEN UNCHANGED <<recording, cur, kpc>>
       ELSE /\ cur < MaxSessions
            /\ recording' = TRUE
            /\ cur' = cur + 1
            /\ kpc' = "s80"
    /\ UNCHANGED <<recorded_frames, stream, stop_requested, stop_request_time,
                   silence_start, now, streams, framesOwner, krel, silence_by,
                   cb, workers, finalized, ended>>

\* line 80: stop_requested = False
Start80 ==
    /\ kpc = "s80"
    /\ stop_requested' = FALSE
    /\ kpc' = "s81"
    /\ UNCHANGED <<recording, recorded_frames, stream, stop_request_time,
                   silence_start, now, streams, cur, framesOwner, krel,
                   silence_by, cb, workers, finalized, ended>>

\* line 81: silence_start = None
Start81 ==
    /\ kpc = "s81"
    /\ silence_start' = None
    /\ silence_by' = 0
    /\ kpc' = "s82"
    /\ UNCHANGED <<recording, recorded_frames, stream, stop_requested,
                   stop_request_time, now, streams, cur, framesOwner, krel, cb,
                   workers, finalized, ended>>

\* line 82: stop_request_time = None
Start82 ==
    /\ kpc = "s82"
    /\ stop_request_time' = None
    /\ kpc' = "s83"
    /\ UNCHANGED <<recording, recorded_frames, stream, stop_requested,
                   silence_start, now, streams, cur, framesOwner, krel,
                   silence_by, cb, workers, finalized, ended>>

\* line 83: recorded_frames = []  (the global now names a fresh list)
Start83 ==
    /\ kpc = "s83"
    /\ recorded_frames' = <<>>
    /\ framesOwner' = cur
    /\ kpc' = "s84"
    /\ UNCHANGED <<recording, stream, stop_requested, stop_request_time,
                   silence_start, now, streams, cur, krel, silence_by, cb,
                   workers, finalized, ended>>

\* line 84: stream = sd.InputStream(...); when the constructor raises (no
\* input device), the assignment does not happen and the exception ends the
\* handler with recording still True.
Start84 ==
    /\ kpc = "s84"
    /\ \/ /\ stream' = cur
          /\ streams' = [streams EXCEPT ![cur] = "opened"]
          /\ kpc' = "s85"
       \/ /\ kpc' = "idle"
          /\ UNCHANGED <<stream, streams>>
    /\ UNCHANGED <<recording, recorded_frames, stop_requested,
                   stop_request_time, silence_start, now, cur, framesOwner,
                   krel, silence_by, cb, workers, finalized, ended>>

\* line 85: stream.start(); it raises on a stream that was closed meanwhile,
\* and may raise when the device refuses to start.
Start85 ==
    /\ kpc = "s85"
    /\ kpc' = "idle"
    /\ \/ /\ streams[stream] \in {"opened", "stopped"}
          /\ streams' = [streams EXCEPT ![stream] = "active"]
       \/ UNCHANGED streams
    /\ UNCHANGED <<globals, now, cur, framesOwner, krel, silence_by, cb,
                   workers, finalized, ended>>

start_recording == Start80 \/ Start81 \/ Start82 \/ Start83 \/ Start84 \/ Start85

\* line 152: if recording
Release152 ==
    /\ kpc = "idle"
    /\ IF recording
       THEN kpc' = "r154" /\ krel' = SessionState
       ELSE UNCHANGED <<kpc, krel>>
    /\ UNCHANGED <<globals, now, streams, cur, framesOwner, silence_by, cb,
                   workers, finalized, ended>>

\* line 154 if the Release ended the capture at once
Release154Stops ==
    /\ kpc = "r154"
    /\ stop_requested' = TRUE
    /\ recording' = FALSE
    /\ kpc' = "r155"
    /\ UNCHANGED <<recorded_frames, stream, stop_request_time, silence_start,
                   now, streams, cur, framesOwner, krel, silence_by, cb,
                   workers, finalized, ended>>

\* line 154: stop_requested = True
Release154 ==
    /\ kpc = "r154"
    /\ stop_requested' = TRUE
    /\ kpc' = "r155"
    /\ UNCHANGED <<recording, recorded_frames, stream, stop_request_time,
                   silence_start, now, streams, cur, framesOwner, krel,
                   silence_by, cb, workers, finalized, ended>>

\* line 155: stop_request_time = time.time(), which returns a value of T
Release155In(T) ==
    /\ kpc = "r155"
    /\ \E t \in T : now' = t /\ stop_request_time' = t
    /\ kpc' = "idle"
    /\ krel' = "none"
    /\ UNCHANGED <<recording, recorded_frames, stream, stop_requested,
                   silence_start, streams, cur, framesOwner, silence_by, cb,
                   workers, finalized, ended>>

Release155 == Release155In(Clock)

on_hotkey_release == Release152 \/ Release154 \/ Release155

\* the same handler under the paced clock
on_hotkey_release_paced == Release152 \/ Release154 \/ Release155In(PacedClock)

\* ---- stop_recording and process_recording, on a spawned thread -----------
Move(w, v) == (workers (-) SetToBag({w})) (+) SetToBag({v})

Exit(w) == workers (-) SetToBag({w})

\* lines 90-91: if not recording: return
Stop90(w) ==
    /\ w.pc = "w90"
    /\ workers' = IF recording THEN Move(w, [w EXCEPT !.pc = "w93", !.by = "-"])
                  ELSE Exit(w)
    /\ UNCHANGED <<globals, now, streams, cur, framesOwner, kpc, krel,
                   silence_by, cb, finalized, ended>>

\* line 93: recording = False; the session this ends is the latest one begun
Stop93(w) ==
    /\ w.pc = "w93"
    /\ recording' = FALSE
    /\ ended' = ended \cup {cur}
    /\ workers' = Move(w, [w EXCEPT !.pc = "w94", !.sess = cur])
    /\ UNCHANGED <<recorded_frames, stream, stop_requested, stop_request_time,
                   silence_start, now, streams, cur, framesOwner, kpc, krel,
                   silence_by, cb, finalized>>

\* InputStream.stop() and .close() return only when no callback of the stream
\* is running; both ignore the error of a stream already stopped or closed.
Quiet(s) == cb[s].pc = "idle"

AfterStop(st) == IF st = "active" THEN "stopped" ELSE st

AfterClose(st) == "closed"

\* line 94: stream.stop(), on the stream the global names now
Stop94(w) ==
    /\ w.pc = "w94"
    /\ Quiet(stream)
    /\ streams' = [streams EXCEPT ![stream] = AfterStop(@)]
    /\ workers' = Move(w, [w EXCEPT !.pc = "w95"])
    /\ UNCHANGED <<globals, now, cur, framesOwner, kpc, krel, silence_by, cb,
                   finalized, ended>>

\* line 95: stream.close()
Stop95(w) ==
    /\ w.pc = "w95"
    /\ Quiet(stream)
    /\ streams' = [streams EXCEPT ![stream] = AfterClose(@)]
    /\ workers' = Move(w, [w EXCEPT !.pc = "w96"])
    /\ UNCHANGED <<globals, now, cur, framesOwner, kpc, krel, silence_by, cb,
                   finalized, ended>>

\* lines 96, 100-102: process_recording is entered; if not recorded_frames: return
Process100(w) ==
    /\ w.pc = "w96"
    /\ finalized' = [finalized EXCEPT ![w.sess] = @ + 1]
    /\ workers' = IF recorded_frames = <<>> THEN Exit(w)
                  ELSE Move(w, [w EXCEPT !.pc = "w103"])
    /\ UNCHANGED <<globals, now, streams, cur, framesOwner, kpc, krel,
                   silence_by, cb, ended>>

\* lines 103-109: np.concatenate(recorded_frames) raises on a list emptied
\* meanwhile and wavfile.write may raise, which ends the thread; else
\* transcribe_audio is called once and returns the text, or None when the
\* request raised (lines 123-139).
Process103(w) ==
    /\ w.pc = "w103"
    /\ \/ workers' = Exit(w)
       \/ /\ recorded_frames # <<>>
          /\ \E x \in {"text", "none"} :
                workers' = Move(w, [w EXCEPT !.pc = "w110", !.text = x])
    /\ UNCHANGED <<globals, now, streams, cur, framesOwner, kpc, krel,
                   silence_by, cb, finalized, ended>>

\* lines 110-118: the text is copied and saved, or "Transcription failed." is
\* printed; the thread returns either way
Process110(w) ==
    /\ w.pc = "w110"
    /\ workers' = Exit(w)
    /\ UNCHANGED <<globals, now, streams, cur, framesOwner, kpc, krel,
                   silence_by, cb, finalized, ended>>

stop_recording ==
    \E w \in BagToSet(workers) :
        Stop90(w) \/ Stop93(w) \/ Stop94(w) \/ Stop95(w)

process_recording ==
    \E w \in BagToSet(workers) :
        Process100(w) \/ Process103(w) \/ Process110(w)

Next ==
    \/ audio_callback
    \/ on_hotkey_press
    \/ start_recording
    \/ on_hotkey_release
    \/ stop_recording
    \/ process_recording

Spec == Init /\ [][Next]_vars

\* every buffer is at or above SILENCE_THRESHOLD
NextLoud ==
    \/ audio_callback_loud
    \/ on_hotkey_press
    \/ start_recording
    \/ on_hotkey_release
    \/ stop_recording
    \/ process_recording

LoudSpec == Init /\ [][NextLoud]_vars

\* zero buffers are delivered between a Press and the Release that follows it
NextLate ==
    \/ audio_callback_late
    \/ on_hotkey_press
    \/ start_recording
    \/ on_hotkey_release
    \/ stop_recording
    \/ process_recording

LateSpec == Init /\ [][NextLate]_vars

\* every buffer is below SILENCE_THRESHOLD and buffers arrive at a period
\* shorter than MIN_SILENCE_DURATION
NextSilent ==
    \/ audio_callback_silent
    \/ on_hotkey_press
    \/ start_recording
    \/ on_hotkey_release_paced
    \/ stop_recording
    \/ process_recording

SilentSpec == Init /\ [][NextSilent]_vars

TypeOK ==
    /\ recording \in BOOLEAN
    /\ stop_requested \in BOOLEAN
    /\ stream \in 0..MaxSessions
    /\ stop_request_time \in {None} \cup 0..MaxTime
    /\ silence_start \in {None} \cup 0..MaxTime
    /\ silence_by \in 0..MaxSessions
    /\ (silence_by = 0) = (silence_start = None)
    /\ Len(recorded_frames) <= MaxFrames
    /\ BagCardinality(workers) <= MaxWorkers

\* ---- properties ----------------------------------------------------------
ActiveStreams == {s \in Sessions : streams[s] = "active"}

\* the handler of the Press that began the latest session has not been
\* followed by a Release: start_recording is still running, or it returned
\* and stop_requested has not been set since line 80 cleared it
Held ==
    /\ recording
    /\ \/ kpc \in {"s80", "s81", "s82", "s83", "s84", "s85"}
       \/ kpc = "idle" /\ ~stop_requested

\* nothing is left that could ever run recording = False: no stream delivers
\* buffers, no callback and no stop_recording thread is running, and the
\* keyboard thread is not in start_recording (a Press is refused while
\* recording is True, a Release only sets the stop request)
Stuck ==
    /\ recording
    /\ kpc \in {"idle", "r154", "r155"}
    /\ workers = EmptyBag
    /\ \A s \in Sessions : streams[s] # "active" /\ cb[s].pc = "idle"

\* Stuck is permanent: every step from a stuck state leads to a stuck state.
StuckIsForever == [][Stuck => Stuck']_vars

\* C1: process_recording is entered at most once for every session, under
\* every interleaving of the stop_recording threads.
C1_FinalizeAtMostOnce == \A s \in Sessions : finalized[s] <= 1

\* C2: at most one capture stream is started and not yet stopped or closed.
C2_OneStreamOpen == Cardinality(ActiveStreams) <= 1

\* C3: while a stop_recording thread is between recording = False and its
\* return, a Press begins no session.
C3_PressIgnoredWhileFinalizing ==
    [][SessionState = "Finalizing" => cur' = cur]_vars

\* C4: no buffer is appended to the frame list of a session for which
\* stop_recording has run recording = False.
C4_NoAppendAfterFinalizing ==
    [][Len(recorded_frames') > Len(recorded_frames) => framesOwner \notin ended]_vars

\* C5: from the Press that starts a session to the next Release, recording
\* stays True and the session's stream, once started, stays started.
C5_HeldKeepsRecording ==
    [][Held => /\ recording'
               /\ (streams[cur] = "active" => streams'[cur] = "active")]_vars

\* C6: no reachable state leaves the machine outside Idle for ever.
C6_NeverStuckOutsideIdle == ~Stuck

\* C7: when start_recording ends without a started stream (the constructor
\* or stream.start() raised), recording is False afterwards.
C7_OpenFailureAborts ==
    [][(kpc \in {"s84", "s85"} /\ kpc' = "idle" /\ streams'[cur] # "active")
          => ~recording']_vars

\* C8: a Release that arrives while the session is not in Recording leaves
\* stop_requested and stop_request_time as they are.
C8_ReleaseIgnoredUnlessRecording ==
    [][(kpc \in {"r154", "r155"} /\ krel # "Recording")
          => UNCHANGED <<stop_requested, stop_request_time>>]_vars

\* the step in which the callback of stream s runs lines 69-71
TimeoutStep(s) == cb[s].pc = "c69" /\ cb'[s].pc # "c69"

C10_TimeoutNeverEarlyAndOnce ==
    /\ [][BagCardinality(workers') > BagCardinality(workers)
            => /\ stop_request_time # None
               /\ now - stop_request_time >= MAX_WAIT_AFTER_STOP_REQUEST]_vars
    /\ [][\A s \in Sessions :
            (/\ TimeoutStep(s)
             /\ stop_request_time # None
             /\ cb[s].t - stop_request_time >= MAX_WAIT_AFTER_STOP_REQUEST)
            => BagCardinality(workers') = BagCardinality(workers) + 1]_vars
    /\ [](\A s \in Sessions : finalized[s] <= 1)

\* the step in which the callback of stream s runs lines 60-67
SilenceStep(s) == cb[s].pc = "c60" /\ cb'[s].pc # "c60"

\* a step that starts a stop_recording thread
Triggers == BagCardinality(workers') > BagCardinality(workers)

\* no stop has been decided for the latest session yet: it is recording, no
\* stop_recording thread is alive and the buffer under evaluation started none
Undecided(s) ==
    recording /\ cur \notin ended /\ workers = EmptyBag /\ cb[s].spawned = 0

\* C11: when every buffer is silent and buffers arrive less than
\* MIN_SILENCE_DURATION apart, a silence stop is decided only after
\* MIN_SILENCE_DURATION of silence, the first stop decided for a session is
\* not the timeout, and the session is finalized once.
C11_SilenceStopLatencyAndOnce ==
    /\ [][\A s \in Sessions :
            (SilenceStep(s) /\ Triggers)
            => /\ silence_start # None
               /\ cb[s].t - silence_start >= MIN_SILENCE_DURATION]_vars
    /\ [][\A s \in Sessions :
            (TimeoutStep(s) /\ Undecided(s)) => ~Triggers]_vars
    /\ [](\A s \in Sessions : finalized[s] <= 1)

\* a step of on_hotkey_release that found recording = True at line 152
ReleaseStep ==
    /\ kpc' # kpc
    /\ kpc \in {"r154", "r155"} \/ kpc' = "r154"

C13_EmptySessionSkipsSink ==
    \A w \in BagToSet(workers) :
        /\ w.pc = "w96" => recorded_frames = <<>>
        /\ w.pc # "w103"

\* the thread w calls transcribe_audio in this step
Transcribes(w) ==
    /\ w.pc = "w103"
    /\ BagCardinality(workers') = BagCardinality(workers)
    /\ CopiesIn(w, workers') < CopiesIn(w, workers)

\* the thread w, whose transcription failed, returns in this step
FailedReturns(w) ==
    /\ w.pc = "w110" /\ w.text = "none"
    /\ CopiesIn(w, workers') < CopiesIn(w, workers)

\* C14: a failed transcription is not retried (no second call of
\* transcribe_audio for the session once one has returned None), recording is
\* False when the failed finalize returns unless a Press has started a later
\* session meanwhile, and a Press received in Idle starts a new session.
C14_SinkFailureNoRetryThenIdle ==
    /\ [][\A w \in BagToSet(workers) :
            Transcribes(w)
            => ~\E v \in BagToSet(workers) :
                   v.pc = "w110" /\ v.text = "none" /\ v.sess = w.sess]_vars
    /\ [][\A w \in BagToSet(workers) :
            (FailedReturns(w) /\ cur = w.sess) => ~recording']_vars
    /\ [][(SessionState = "Idle" /\ kpc = "idle" /\ kpc' = "s80")
          => recording' /\ cur' = cur + 1]_vars

\* C15: while recording is True the keyboard thread, waiting for its next
\* event, never enters start_recording: no step taken then starts a session,
\* rebinds recorded_frames, opens a stream or rebinds the global stream,
\* or writes stop_requested or stop_request_time other than through a Release;
\* recorded_frames and silence_start change in steps of audio_callback only.
C15_PressIgnoredWhileRecording ==
    [][(recording /\ kpc = "idle")
       => /\ kpc' \in {"idle", "r154"}
          /\ UNCHANGED <<cur, framesOwner, stream, stop_requested,
                         stop_request_time>>
          /\ \A s \in Sessions : streams[s] = "none" => streams'[s] = "none"
          /\ cb' = cb => UNCHANGED <<recorded_frames, silence_start>>]_vars

\* a Press can arrive while a session records, holds a buffer, has its stop
\* requested and silence_start set, and another session could still be started
C15_Witness ==
    /\ recording /\ kpc = "idle" /\ cur = 1 /\ cur < MaxSessions
    /\ streams[1] = "active" /\ stream = 1
    /\ recorded_frames # <<>> /\ stop_requested
    /\ stop_request_time # None /\ silence_start # None

\* C16: one buffer yields one stop decision: when lines 60-67 have started a
\* stop_recording thread for the buffer under evaluation, lines 69-71 start
\* none for it, also when the timeout is due.
C16_OneTriggerPerBuffer ==
    [][\A s \in Sessions :
         (TimeoutStep(s) /\ cb[s].spawned = 1) => ~Triggers]_vars

\* C17: a loud buffer evaluated while a stop is requested resets silence_start;
\* a silent buffer that finds silence_start = None only sets it and starts no
\* thread; a silence stop is decided only by a silent buffer of the stream
\* whose silent buffer set silence_start, at least MIN_SILENCE_DURATION after
\* it, so no stop is decided on the first silent buffer of a run.
C17_SilenceStopNeedsOwnRun ==
    [][\A s \in Sessions :
         SilenceStep(s)
         => /\ cb[s].rms = "loud" => silence_start' = None /\ ~Triggers
            /\ (cb[s].rms = "silent" /\ silence_start = None)
               => silence_start' = cb[s].t /\ ~Triggers
            /\ Triggers => /\ silence_start # None
                           /\ cb[s].t - silence_start >= MIN_SILENCE_DURATION
                           /\ silence_by = s]_vars

\* C18: once start_recording has returned, a session that records and has no
\* stop requested has stop_request_time = None and silence_start = None.
C18_RecordingHasNoStopState ==
    (recording /\ ~stop_requested /\ kpc \in {"idle", "r154"})
    => (stop_request_time = None /\ silence_start = None)

\* C19: the list process_recording reads for a session (the test of line 100
\* and the concatenation of line 103) is the one bound by that session's
\* start_recording and holds buffers of that session's stream only.
C19_FinalizeReadsOwnFrames ==
    \A w \in BagToSet(workers) :
        w.pc \in {"w96", "w103"}
        => /\ framesOwner = w.sess
           /\ \A i \in 1..Len(recorded_frames) : recorded_frames[i] = w.sess

\* the InputStream objects that were constructed and have not been closed
OpenStreams == {s \in Sessions : streams[s] \in {"opened", "active", "stopped"}}

\* C20: when recording is False and no stop_recording thread is alive, every
\* stream that start_recording opened has been closed.
C20_NoStreamLeak ==
    (~recording /\ workers = EmptyBag) => OpenStreams = {}

====
